---- MODULE Spec2Model ----
(***************************************************************************)
(* A model of examples/monitoring_console.py: the console that tails the   *)
(* JSON Lines remote monitoring log of sfptpd, keeps a store of the last   *)
(* known facts per PTP node, derives user-clearable events from changes    *)
(* between consecutive slave-status records and shows them in a curses     *)
(* display driven by a single polling loop.                                *)
(***************************************************************************)
EXTENDS Integers, Sequences, FiniteSets, TLC

VARIABLES
    nodes,             \* dict port-id -> node record              (line 35)
    events,            \* insertion-ordered dict (node, type) -> event (36)
    event_shortcuts,   \* list of event keys, index = digit        (line 37)
    details_selected,  \* None or the selected event key           (line 38)
    details_pad,       \* rows written to the details pad by select_details
    events_pad,        \* rows written to the events pad by update_events
    nodes_pad,         \* rows written to the nodes pad by update_nodes
    alarms_pad,        \* rows written to the alarms pad by update_alarms
    doquit,            \* the main loop's exit flag                (line 399)
    pc,                \* position of the main loop
    keys,              \* keystrokes typed and not yet returned by getch()
    typed,             \* number of keystrokes typed so far
    logfile,           \* the lines of the log file, in file order
    partial,           \* TRUE while the writer is inside the last line
    pos,               \* read offset of logfile, in lines         (line 421)
    scr_size,          \* the size the terminal has now
    sm,                \* the size the windows were laid out for (smy, smx)
    bell,              \* beep/flash calls made by the last step
    rendered,          \* refresh done by the last step: none, partial, full
    terminal,          \* "curses" between initscr() and endwin(), else "normal"
    elapsed,           \* whole seconds between a timestamp and utcnow()
    age,               \* the text time_delta returned for elapsed, or None
    fifo,              \* collectd bridge: characters in the FIFO, not yet read
    writer_open,       \* TRUE while the daemon holds the FIFO open for writing
    written,           \* every character the daemon wrote, in order
    writes,            \* number of write() calls the daemon made
    rd_pc,             \* read_thread: "open" (line 41) or "read" (line 44)
    data,              \* read_thread's buffer                    (line 42)
    queue,             \* the Queue between read_thread and collectd (line 36)
    taken,             \* the entries get_nowait() returned, in order
    printed            \* the lines reported as invalid JSON      (line 53)

storeVars == <<nodes, events>>
uiVars    == <<event_shortcuts, details_selected, details_pad, events_pad,
               nodes_pad, alarms_pad>>
loopVars  == <<doquit, pc, terminal>>
kbdVars   == <<keys, typed>>
logVars   == <<logfile, partial>>
sizeVars  == <<scr_size, sm>>
outVars   == <<bell, rendered>>
ageVars   == <<elapsed, age>>
pipeVars  == <<fifo, writer_open, written, writes>>
threadVars == <<rd_pc, data, printed>>
bridgeVars == <<pipeVars, threadVars, queue, taken>>
consoleVars == <<storeVars, uiVars, loopVars, kbdVars, logVars, pos, sizeVars,
                 outVars, ageVars>>
vars == <<nodes, events, event_shortcuts, details_selected, details_pad,
          events_pad, nodes_pad, alarms_pad, doquit, pc, keys, typed, logfile,
          partial, pos, scr_size, sm, bell, rendered, terminal, elapsed, age,
          fifo, writer_open, written, writes, rd_pc, data, queue, taken,
          printed>>

----------------------------------------------------------------------------
(* Python values.  None and an absent dictionary key are the empty tuple,  *)
(* a present value v is the one-element tuple <<v>>.                       *)

None == <<>>
Some(v) == <<v>>
Get(o) == o[1]

\* len() of a list
len(s) == Len(s)

\* sep.join(list of strings)
RECURSIVE join(_, _)
join(sep, s) ==
    IF s = <<>> THEN ""
    ELSE IF Len(s) = 1 THEN s[1]
    ELSE s[1] \o sep \o join(sep, Tail(s))

----------------------------------------------------------------------------
(* The events dictionary.  A Python dict keeps its keys in insertion       *)
(* order, and sorted() is stable, so the order matters to the display: an  *)
(* entry is [node, typ, time, description, instances].                     *)

EventKey(e) == <<e.node, e.typ>>
EventKeys(evs) == {EventKey(evs[i]) : i \in 1..Len(evs)}
HasEvent(evs, k) == k \in EventKeys(evs)
EventIndex(evs, k) == CHOOSE i \in 1..Len(evs) : EventKey(evs[i]) = k
EventAt(evs, k) == evs[EventIndex(evs, k)]

\* del events[k]
DelEvent(evs, k) ==
    LET Keep(e) == EventKey(e) # k IN SelectSeq(evs, Keep)

----------------------------------------------------------------------------
(* Record processing, lines 54-127.  The functions work on the globals     *)
(* nodes and events; here they take and return a store                     *)
(* [nodes, events, bell, err], err naming the exception that ended the     *)
(* processing of the line ("none" when none was raised).                   *)

Store(ns, evs) == [nodes |-> ns, events |-> evs, bell |-> 0, err |-> "none"]

\* nodes[record['port-id']] = record: the node is the identity record, to
\* which the last_* keys are added later.
NewNode(record) ==
    [port_id |-> record.port_id, domain |-> record.domain,
     address |-> record.address,
     last_rx_event_ts |-> None, last_rx_event_comp |-> None,
     last_tx_event |-> None, last_slave_status |-> None]

\* process_node that stores every identity record
process_node_overwrites(st, record) ==
    [st EXCEPT !.nodes = (record.port_id :> NewNode(record)) @@ st.nodes]

process_node(st, record) ==
    IF ~(record.port_id \in DOMAIN st.nodes)
    THEN [st EXCEPT !.nodes = st.nodes @@ (record.port_id :> NewNode(record))]
    ELSE st

process_rx_event_ts(st, record) ==
    IF record.node \notin DOMAIN st.nodes
    THEN [st EXCEPT !.err = "KeyError"]
    ELSE [st EXCEPT !.nodes[record.node].last_rx_event_ts = Some(record)]

process_rx_event_comp(st, record) ==
    IF record.node \notin DOMAIN st.nodes
    THEN [st EXCEPT !.err = "KeyError"]
    ELSE [st EXCEPT !.nodes[record.node].last_rx_event_comp = Some(record)]

process_tx_event(st, record) ==
    IF record.node \notin DOMAIN st.nodes
    THEN [st EXCEPT !.err = "KeyError"]
    ELSE [st EXCEPT !.nodes[record.node].last_tx_event = Some(record)]

\* add_event that starts the instances list again instead of appending
add_event_restarts(st, record, name, description) ==
    LET event == <<record.node, name>>
        evs == st.events
        new == [node |-> record.node, typ |-> name,
                time |-> record.monitor_timestamp,
                description |-> description,
                instances |-> <<record>>]
    IN [st EXCEPT
          !.events =
              IF HasEvent(evs, event)
              THEN [evs EXCEPT ![EventIndex(evs, event)].instances =
                                   <<record>>]
              ELSE Append(evs, new),
          !.bell = @ + 1]

\* add_event that stamps the entry with the time of its latest instance
add_event_restamps(st, record, name, description) ==
    LET event == <<record.node, name>>
        evs == st.events
        new == [node |-> record.node, typ |-> name,
                time |-> record.monitor_timestamp,
                description |-> description,
                instances |-> <<record>>]
    IN [st EXCEPT
          !.events =
              IF HasEvent(evs, event)
              THEN [evs EXCEPT ![EventIndex(evs, event)] =
                      [@ EXCEPT !.instances = Append(@, record),
                                !.time = record.monitor_timestamp]]
              ELSE Append(evs, new),
          !.bell = @ + 1]

add_event(st, record, name, description) ==
    LET event == <<record.node, name>>
        evs == st.events
        new == [node |-> record.node, typ |-> name,
                time |-> record.monitor_timestamp,
                description |-> description,
                instances |-> <<record>>]
    IN [st EXCEPT
          !.events =
              IF HasEvent(evs, event)
              THEN [evs EXCEPT ![EventIndex(evs, event)].instances =
                                   Append(@, record)]
              ELSE Append(evs, new),
          !.bell = @ + 1]

\* Lines 92-111: store the record and raise the events the change from the
\* previous record calls for.
derive_events(st, previous, record) ==
    LET s0 == [st EXCEPT !.nodes[record.node].last_slave_status = Some(record)]
        s1 == IF record.bond_changed
              THEN add_event(s0, record, "bond-changed", None)
              ELSE s0
        all_alarms == record.msg_alarms \o record.alarms
        s2 == IF len(all_alarms) # 0
                 /\ len(previous.msg_alarms) = 0
                 /\ len(previous.alarms) = 0
              THEN add_event(s1, record, "alarmed", Some(join(",", all_alarms)))
              ELSE s1
        s3 == IF record.state # "SLAVE" /\ previous.state = "SLAVE"
              THEN add_event(s2, record, "left-slave-state", None)
              ELSE s2
        s4 == IF ~record.in_sync /\ previous.in_sync
              THEN add_event(s3, record, "lost-sync", None)
              ELSE s3
    IN s4

\* process_slave_status that takes the first record of a node for its own
\* previous one instead of storing it alone
process_slave_status_first(st, record) ==
    IF record.node \notin DOMAIN st.nodes
    THEN [st EXCEPT !.err = "KeyError"]
    ELSE LET node == st.nodes[record.node]
         IN derive_events(st,
                          IF node.last_slave_status = None THEN record
                          ELSE Get(node.last_slave_status),
                          record)

\* process_slave_status that makes a node for a reference it does not know
process_slave_status_creates(st, record) ==
    LET s0 == IF record.node \in DOMAIN st.nodes THEN st
              ELSE [st EXCEPT !.nodes =
                      @ @@ (record.node :>
                              NewNode([port_id |-> record.node, domain |-> 0,
                                       address |-> ""]))]
        node == s0.nodes[record.node]
    IN IF node.last_slave_status = None
       THEN [s0 EXCEPT !.nodes[record.node].last_slave_status = Some(record)]
       ELSE derive_events(s0, Get(node.last_slave_status), record)

process_slave_status(st, record) ==
    IF record.node \notin DOMAIN st.nodes
    THEN [st EXCEPT !.err = "KeyError"]
    ELSE LET node == st.nodes[record.node]
         IN IF node.last_slave_status = None
            THEN [st EXCEPT !.nodes[record.node].last_slave_status =
                                Some(record)]
            ELSE derive_events(st, Get(node.last_slave_status), record)

(* A line of the log.  text = "json" is a line that json.loads turns into  *)
(* an object with the given optional members; any other text is a line     *)
(* json.loads raises ValueError on.                                        *)
JsonLine(n, rx, tx, ss) ==
    [text |-> "json", node |-> n, rx_event |-> rx, tx_event |-> tx,
     slave_status |-> ss]
BadLine == [text |-> "{\"node\": ", node |-> None, rx_event |-> None,
            tx_event |-> None, slave_status |-> None]

process_line(st, line, whole) ==
    IF line.text # "json" \/ ~whole
    THEN [st EXCEPT !.err = "ValueError"]
    ELSE
    LET s1 == IF line.node # None THEN process_node(st, Get(line.node)) ELSE st
        evt == Get(line.rx_event)
        s2 == IF line.rx_event # None
                 /\ (evt.offset_from_master # None \/ evt.mean_path_delay # None)
              THEN process_rx_event_comp(s1, evt)
              ELSE s1
        s3 == IF s2.err = "none" /\ line.rx_event # None
                 /\ evt.sync_ingress_timestamp # None
              THEN process_rx_event_ts(s2, evt)
              ELSE s2
        s4 == IF s3.err = "none" /\ line.tx_event # None
              THEN process_tx_event(s3, Get(line.tx_event))
              ELSE s3
        s5 == IF s4.err = "none" /\ line.slave_status # None
              THEN process_slave_status(s4, Get(line.slave_status))
              ELSE s4
    IN s5

----------------------------------------------------------------------------
(* Rendering, lines 133-347.  The state the display functions read and     *)
(* write is gathered in a record                                           *)
(* [nodes, events, event_shortcuts, details_selected, details_pad,         *)
(*  events_pad, nodes_pad, alarms_pad, doquit, rendered, err].  A pad is    *)
(* the sequence of the rows written to it since it was last erased; a row  *)
(* that shows an age holds the timestamp the age is worked out from.       *)

(* time_delta, lines 165-179.  timedelta.seconds is the seconds field of   *)
(* the normalised difference (days, seconds, microseconds): the whole      *)
(* seconds within the last day.  "/" is Python 3's true division, so td is *)
(* a fraction num/den from line 172 on, and "%d" drops its fraction.       *)

SECONDS_PER_DAY == 86400
timedelta_seconds(e) == e % SECONDS_PER_DAY

Frac(n) == [num |-> n, den |-> 1]
FracDiv(r, k) == [num |-> r.num, den |-> r.den * k]
FracLess(r, k) == r.num < k * r.den
FormatD(r) == ToString(r.num \div r.den)

time_delta(e) ==
    LET td == timedelta_seconds(e)
        m == FracDiv(Frac(td), 60)
        h == FracDiv(m, 60)
        d == FracDiv(h, 24)
    IN IF td = 0 THEN "now"
       ELSE IF td < 61 THEN "+" \o FormatD(Frac(td)) \o "s"
       ELSE IF FracLess(m, 61) THEN "+" \o FormatD(m) \o "m"
       ELSE IF FracLess(h, 25) THEN "+" \o FormatD(h) \o "h"
       ELSE "+" \o FormatD(d) \o "d"

\* The event type names in the order Python's string comparison gives them.
TypeNames == <<"alarmed", "bond-changed", "left-slave-state", "lost-sync">>
EventTypes == {TypeNames[i] : i \in 1..Len(TypeNames)}
TypeRank(typ) == CHOOSE i \in 1..Len(TypeNames) : TypeNames[i] = typ

\* sorted(events, key=lambda x: x[1]): a stable sort on the type name
RECURSIVE SortedFrom(_, _)
SortedFrom(evs, i) ==
    IF i > Len(TypeNames) THEN <<>>
    ELSE LET OfType(e) == e.typ = TypeNames[i]
         IN SelectSeq(evs, OfType) \o SortedFrom(evs, i + 1)
sorted_events(evs) == SortedFrom(evs, 1)

\* The number of events that get a digit (shortcut < 10).
MaxShortcuts == 10

\* The row update_events writes for the i-th event of the sorted list.
EventRow(elist, i) ==
    [header |-> (i = 1 \/ elist[i].typ # elist[i - 1].typ),
     shortcut |-> IF i - 1 < MaxShortcuts THEN Some(i - 1) ELSE None,
     node |-> elist[i].node,
     typ |-> elist[i].typ,
     time |-> elist[i].time,
     description |-> IF elist[i].description # None
                     THEN " (" \o Get(elist[i].description) \o ")"
                     ELSE ""]

\* update_events that numbers the events in the order of the dictionary
update_events_unsorted(u) ==
    LET elist == sorted_events(u.events)
        n == IF Len(elist) < MaxShortcuts THEN Len(elist) ELSE MaxShortcuts
    IN [u EXCEPT
          !.event_shortcuts = [i \in 1..n |-> EventKey(u.events[i])],
          !.events_pad = [i \in 1..Len(elist) |-> EventRow(elist, i)]]

update_events(u) ==
    LET elist == sorted_events(u.events)
        n == IF Len(elist) < MaxShortcuts THEN Len(elist) ELSE MaxShortcuts
    IN [u EXCEPT
          !.event_shortcuts = [i \in 1..n |-> EventKey(elist[i])],
          !.events_pad = [i \in 1..Len(elist) |-> EventRow(elist, i)]]

\* The port ids in the order Python's string comparison gives them.
PortNames == <<"eth0", "eth1", "eth2">>

\* sorted(nodes, key=lambda x: nodes[x]['port-id'])
sorted_nodes(ns) ==
    LET Known(p) == p \in DOMAIN ns IN SelectSeq(PortNames, Known)

\* The row update_nodes writes for a node, lines 191-244.
NodeRow(node) ==
    LET has_rx == node.last_rx_event_comp # None
        rx_event == Get(node.last_rx_event_comp)
        has_ss == node.last_slave_status # None
        slave_status == Get(node.last_slave_status)
        selected == has_ss /\ slave_status.selected
        in_sync == has_ss /\ slave_status.in_sync
        alarmed == has_ss /\ (len(slave_status.msg_alarms) # 0
                                \/ len(slave_status.alarms) # 0)
    IN [port_id |-> node.port_id,
        domain |-> node.domain,
        offset |-> IF has_rx THEN rx_event.offset_from_master ELSE None,
        mpd |-> IF has_rx THEN rx_event.mean_path_delay ELSE None,
        state |-> IF has_ss THEN slave_status.state ELSE "",
        sel_str |-> IF ~has_ss THEN "" ELSE IF selected THEN "Sel" ELSE "---",
        syn_str |-> IF ~has_ss THEN "" ELSE IF in_sync THEN "Syn" ELSE "---",
        alrm_str |-> IF ~has_ss THEN "" ELSE IF alarmed THEN "ALRM" ELSE "----",
        last_rx |-> IF has_rx THEN Some(rx_event.monitor_timestamp) ELSE None,
        last_slave_status |-> IF has_ss THEN Some(slave_status.monitor_timestamp)
                              ELSE None,
        address |-> node.address,
        colour |-> IF alarmed THEN "COL_ALARMED"
                   ELSE IF selected /\ in_sync THEN "COL_SYNCED"
                   ELSE "default"]

\* The title row of the nodes pad, line 189.
NodesTitle == [port_id |-> "port"]

\* update_nodes that writes after what the pad holds instead of erasing it
update_nodes_appends(u) ==
    LET nlist == sorted_nodes(u.nodes)
    IN [u EXCEPT !.nodes_pad =
          @ \o <<NodesTitle>>
            \o [i \in 1..Len(nlist) |-> NodeRow(u.nodes[nlist[i]])]]

update_nodes(u) ==
    LET nlist == sorted_nodes(u.nodes)
    IN [u EXCEPT !.nodes_pad =
          <<NodesTitle>>
            \o [i \in 1..Len(nlist) |-> NodeRow(u.nodes[nlist[i]])]]

\* Lines 256-264: the (alarm, port) pairs in the order the loops meet them.
RECURSIVE alarm_pairs(_, _)
alarm_pairs(ns, nlist) ==
    IF nlist = <<>> THEN <<>>
    ELSE LET node == ns[Head(nlist)]
             all == IF node.last_slave_status = None THEN <<>>
                    ELSE Get(node.last_slave_status).msg_alarms
                           \o Get(node.last_slave_status).alarms
         IN [i \in 1..Len(all) |-> [alarm |-> all[i], port_id |-> node.port_id]]
              \o alarm_pairs(ns, Tail(nlist))

\* The keys of the alarms dictionary, in the order they were inserted.
RECURSIVE alarm_keys(_)
alarm_keys(pairs) ==
    IF pairs = <<>> THEN <<>>
    ELSE LET front == alarm_keys(SubSeq(pairs, 1, Len(pairs) - 1))
             a == pairs[Len(pairs)].alarm
         IN IF \E i \in 1..Len(front) : front[i] = a THEN front
            ELSE Append(front, a)

\* Lines 265-268: an alarm, then the ports that have it.
update_alarms(u) ==
    LET pairs == alarm_pairs(u.nodes, sorted_nodes(u.nodes))
        akeys == alarm_keys(pairs)
        Ports(a) == LET Has(x) == x.alarm = a
                        mine == SelectSeq(pairs, Has)
                    IN [i \in 1..Len(mine) |-> mine[i].port_id]
    IN [u EXCEPT !.alarms_pad =
          [i \in 1..Len(akeys) |-> [alarm |-> akeys[i], ports |-> Ports(akeys[i])]]]

\* update_details: the details window is drawn again from the details pad,
\* which is left as it is.
update_details(u) == u

\* update_nodes, update_alarms, update_events, update_details, each working
\* on what the one before it left (a value bound by a set is worked out
\* once).
update_display(u) ==
    CHOOSE r \in
        { [u4 EXCEPT !.rendered = IF @ = "full" THEN "full" ELSE "partial"] :
            u4 \in { update_details(u3) :
            u3 \in { update_events(u2) :
            u2 \in { update_alarms(u1) :
            u1 \in { update_nodes(u0) : u0 \in {u} } } } } } : TRUE

\* the four draw_window calls, then update_display
fullupdate_display(u) ==
    update_display([u EXCEPT !.rendered = "full"])

\* sorted(instances, key=lambda x: x['monitor-timestamp']): stable
RECURSIVE sorted_instances(_)
sorted_instances(s) ==
    IF s = <<>> THEN <<>>
    ELSE LET r == s[Len(s)]
             front == sorted_instances(SubSeq(s, 1, Len(s) - 1))
             NotAfter(x) == x.monitor_timestamp <= r.monitor_timestamp
             After(x) == x.monitor_timestamp > r.monitor_timestamp
         IN SelectSeq(front, NotAfter) \o <<r>> \o SelectSeq(front, After)

DetailRow(r) ==
    [monitor_timestamp |-> r.monitor_timestamp, state |-> r.state,
     alarms |-> join(" ", r.msg_alarms \o r.alarms)]

select_details(u, event) ==
    LET u1 == [u EXCEPT !.details_selected = event, !.details_pad = <<>>]
    IN IF event = None THEN fullupdate_display(u1)
       ELSE IF ~HasEvent(u1.events, event) THEN [u1 EXCEPT !.err = "KeyError"]
       ELSE LET e == EventAt(u1.events, event)
                records == sorted_instances(e.instances)
            IN fullupdate_display(
                 [u1 EXCEPT !.details_pad =
                      [i \in 1..Len(records) |-> DetailRow(records[i])]])

----------------------------------------------------------------------------
(* The main loop, lines 399-446.                                           *)

\* Key codes: ^L, space, 'q', 'c', '0'
KEY_REFRESH == 12
KEY_SPACE == 32
KEY_Q == 113
KEY_C == 99
KEY_0 == 48

UI == [nodes |-> nodes, events |-> events,
       event_shortcuts |-> event_shortcuts,
       details_selected |-> details_selected, details_pad |-> details_pad,
       events_pad |-> events_pad, nodes_pad |-> nodes_pad,
       alarms_pad |-> alarms_pad, doquit |-> doquit, rendered |-> "none",
       err |-> "none"]

\* the clear-this key that closes the popup without drawing the display again
key_clear_this_no_redraw(u) ==
    IF ~HasEvent(u.events, u.details_selected)
    THEN [u EXCEPT !.err = "KeyError"]
    ELSE [u EXCEPT !.events = DelEvent(@, u.details_selected),
                   !.details_selected = None,
                   !.details_pad = <<>>]

\* Lines 408-410: space with an event selected.
key_clear_this(u) ==
    IF ~HasEvent(u.events, u.details_selected)
    THEN [u EXCEPT !.err = "KeyError"]
    ELSE select_details([u EXCEPT !.events = DelEvent(@, u.details_selected)],
                        None)

\* the quit key read and dropped
key_quit_dropped(u) == u

\* Lines 412-413: 'q' with no event selected.
key_quit(u) == [u EXCEPT !.doquit = TRUE]

\* the clear key that leaves the shortcut list as it is
key_clear_all_events_only(u) == [u EXCEPT !.events = <<>>]

\* Lines 414-416: 'c' with no event selected.
key_clear_all(u) == [u EXCEPT !.events = <<>>, !.event_shortcuts = <<>>]

\* Lines 417-418: a key from '0' on with no event selected.
key_digit(u, ch) ==
    IF ch >= KEY_0 /\ (ch - KEY_0) < len(u.event_shortcuts)
    THEN select_details(u, u.event_shortcuts[(ch - KEY_0) + 1])
    ELSE u

\* handle_key with the digits working while an event is selected too
handle_key_digit_anywhere(u, ch) ==
    LET u1 == IF ch = KEY_REFRESH THEN fullupdate_display(u) ELSE u
        u2 == IF u1.details_selected # None
              THEN IF ch = KEY_SPACE THEN key_clear_this(u1) ELSE u1
              ELSE LET q == IF ch = KEY_Q THEN key_quit(u1) ELSE u1
                   IN IF ch = KEY_C THEN key_clear_all(q) ELSE q
    IN IF u2.err = "none" /\ ch # KEY_SPACE THEN key_digit(u2, ch) ELSE u2

\* handle_key with the refresh key closing the popup before it redraws
handle_key_refresh_resets(u, ch) ==
    LET u1 == IF ch = KEY_REFRESH THEN select_details(u, None) ELSE u
    IN IF u1.details_selected # None
       THEN IF ch = KEY_SPACE THEN key_clear_this(u1) ELSE u1
       ELSE LET u2 == IF ch = KEY_Q THEN key_quit(u1) ELSE u1
                u3 == IF ch = KEY_C THEN key_clear_all(u2) ELSE u2
            IN key_digit(u3, ch)

\* One pass of the input loop for a key ch /= -1, lines 405-418.
handle_key(u, ch) ==
    LET u1 == IF ch = KEY_REFRESH THEN fullupdate_display(u) ELSE u
    IN IF u1.details_selected # None
       THEN IF ch = KEY_SPACE THEN key_clear_this(u1) ELSE u1
       ELSE LET u2 == IF ch = KEY_Q THEN key_quit(u1) ELSE u1
                u3 == IF ch = KEY_C THEN key_clear_all(u2) ELSE u2
            IN key_digit(u3, ch)

\* Write the display state back to the globals.
SetUI(u) ==
    /\ events' = u.events
    /\ event_shortcuts' = u.event_shortcuts
    /\ details_selected' = u.details_selected
    /\ details_pad' = u.details_pad
    /\ events_pad' = u.events_pad
    /\ nodes_pad' = u.nodes_pad
    /\ alarms_pad' = u.alarms_pad
    /\ doquit' = u.doquit
    /\ rendered' = u.rendered

Running == pc \in {"input", "log", "resize"}

\* scr.getch() returns a key: one pass of the inner loop.
GetchKey ==
    /\ pc = "input"
    /\ keys # <<>>
    /\ \E u \in {handle_key(UI, Head(keys))} :
          /\ SetUI(u)
          /\ pc' = IF u.err = "none" THEN "input" ELSE "crashed"
    /\ keys' = Tail(keys)
    /\ bell' = 0
    /\ UNCHANGED <<nodes, typed, logVars, pos, sizeVars, terminal, ageVars,
                   bridgeVars>>

\* the inner loop left after one key, others waiting
GetchNone_early ==
    /\ pc = "input"
    /\ pc' = "log"
    /\ bell' = 0
    /\ rendered' = "none"
    /\ UNCHANGED <<storeVars, uiVars, doquit, terminal, kbdVars, logVars, pos,
                   sizeVars, ageVars, bridgeVars>>

\* scr.getch() returns -1: the inner loop ends.
GetchNone ==
    /\ pc = "input"
    /\ keys = <<>>
    /\ pc' = "log"
    /\ bell' = 0
    /\ rendered' = "none"
    /\ UNCHANGED <<storeVars, uiVars, doquit, terminal, kbdVars, logVars, pos,
                   sizeVars, ageVars, bridgeVars>>

\* LogIdle that seeks to the start of the file
LogIdle_rewinds ==
    /\ pc = "log"
    /\ pos = Len(logfile)
    /\ \E u \in {update_display(UI)} : SetUI(u)
    /\ pc' = "resize"
    /\ bell' = 0
    /\ pos' = 0
    /\ UNCHANGED <<nodes, terminal, kbdVars, logVars, sizeVars, ageVars,
                   bridgeVars>>

\* readline() returns '': update_display(), sleep, seek back (lines 423-426)
LogIdle ==
    /\ pc = "log"
    /\ pos = Len(logfile)
    /\ \E u \in {update_display(UI)} : SetUI(u)
    /\ pc' = "resize"
    /\ bell' = 0
    /\ UNCHANGED <<nodes, terminal, kbdVars, logVars, pos, sizeVars, ageVars,
                   bridgeVars>>

\* readline() returns a line, or what there is of the last line when the
\* writer has not finished it: process_line(line) (lines 427-428)
LogLine ==
    /\ pc = "log"
    /\ pos < Len(logfile)
    /\ \E st \in {process_line(Store(nodes, events), logfile[pos + 1],
                                ~(partial /\ pos + 1 = Len(logfile)))} :
          /\ nodes' = st.nodes
          /\ events' = st.events
          /\ bell' = st.bell
          /\ pc' = IF st.err = "none" THEN "resize" ELSE "crashed"
    /\ pos' = pos + 1
    /\ rendered' = "none"
    /\ UNCHANGED <<uiVars, doquit, terminal, kbdVars, logVars, sizeVars,
                   ageVars, bridgeVars>>

\* The terminal size check (lines 431-443), then the test of the while loop
\* and, when it ends, curses.endwin() (lines 400, 446).
ResizeCheck ==
    /\ pc = "resize"
    /\ IF scr_size # sm
       THEN /\ sm' = scr_size
            /\ \E u \in {fullupdate_display(UI)} : SetUI(u)
       ELSE /\ sm' = sm
            /\ rendered' = "none"
            /\ UNCHANGED <<events, uiVars, doquit>>
    /\ pc' = IF doquit THEN "exited" ELSE "input"
    /\ terminal' = IF doquit THEN "normal" ELSE terminal
    /\ bell' = 0
    /\ UNCHANGED <<nodes, kbdVars, logVars, pos, scr_size, ageVars,
                   bridgeVars>>

----------------------------------------------------------------------------
(* The records the daemon writes.                                          *)

Identity(p, d, a) == [port_id |-> p, domain |-> d, address |-> a]

SlaveStatus(n, state, in_sync, bond, msg, al, t) ==
    [node |-> n, state |-> state, selected |-> TRUE, in_sync |-> in_sync,
     bond_changed |-> bond, msg_alarms |-> msg, alarms |-> al,
     monitor_timestamp |-> t]

RxEvent(n, offset, mpd, ingress, t) ==
    [node |-> n, monitor_timestamp |-> t, offset_from_master |-> offset,
     mean_path_delay |-> mpd, sync_ingress_timestamp |-> ingress]

TxEvent(n, t) == [node |-> n, monitor_timestamp |-> t]

IdLine(p, d, a) == JsonLine(Some(Identity(p, d, a)), None, None, None)
SsLine(ss) == JsonLine(None, None, None, Some(ss))

\* A node in step with its master, and one that has lost it.
InSync(n, t) == SlaveStatus(n, "SLAVE", TRUE, FALSE, <<>>, <<>>, t)
Lost(n, t) ==
    SlaveStatus(n, "LISTENING", FALSE, TRUE, <<"no-sync-pkts">>,
                <<"no-rx-timestamps">>, t)

\* The lines the daemon chooses from when the log has t - 1 lines.
LineMenu(t) ==
    { SsLine(InSync("eth0", t)),
      SsLine(Lost("eth0", t)),
      BadLine }

\* The keys the user presses: ^L, space, q, c, 0, 1.
KeyMenu == {KEY_REFRESH, KEY_SPACE, KEY_Q, KEY_C, KEY_0, KEY_0 + 1}

MaxLog == 4
MaxKeys == 2
MaxPending == 1

----------------------------------------------------------------------------
(* The environment: the user, the daemon writing the log, the terminal.    *)

\* The user presses a key: at most pending keys wait to be read, and at most
\* max are pressed in all.
UserTypes(menu, pending, max) ==
    /\ Running
    /\ Len(keys) < pending
    /\ typed < max
    /\ \E ch \in menu : keys' = Append(keys, ch)
    /\ typed' = typed + 1
    /\ UNCHANGED <<storeVars, uiVars, loopVars, logVars, pos, sizeVars,
                   outVars, ageVars, bridgeVars>>

\* The daemon writes one whole line.
WriterAppends(menu, max) ==
    /\ Running
    /\ ~partial
    /\ Len(logfile) < max
    /\ \E line \in menu : logfile' = Append(logfile, line)
    /\ UNCHANGED <<storeVars, uiVars, loopVars, kbdVars, partial, pos,
                   sizeVars, outVars, ageVars, bridgeVars>>

\* The daemon has written the first bytes of a line, not yet its end.
WriterBegins(menu, max) ==
    /\ Running
    /\ ~partial
    /\ Len(logfile) < max
    /\ \E line \in menu : logfile' = Append(logfile, line)
    /\ partial' = TRUE
    /\ UNCHANGED <<storeVars, uiVars, loopVars, kbdVars, pos, sizeVars,
                   outVars, ageVars, bridgeVars>>

\* The daemon writes the rest of the line, the console not having read the
\* first part.
WriterFinishes ==
    /\ Running
    /\ partial
    /\ pos < Len(logfile)
    /\ partial' = FALSE
    /\ UNCHANGED <<storeVars, uiVars, loopVars, kbdVars, logfile, pos,
                   sizeVars, outVars, ageVars, bridgeVars>>

\* The terminal is one of two sizes, 0 and 1.  The console looks at the size
\* at line 431 only, so the size changes when the console is about to look.
TerminalResized ==
    /\ pc = "resize"
    /\ scr_size = sm
    /\ scr_size' = 1 - scr_size
    /\ UNCHANGED <<storeVars, uiVars, loopVars, kbdVars, logVars, pos, sm,
                   outVars, ageVars, bridgeVars>>

----------------------------------------------------------------------------
(* The collectd bridge (sfptpd_stats_collectd.py).  A text is a sequence   *)
(* of one-character strings.  The daemon writes the characters "1", "2",   *)
(* " ", "x" and "\n"; a line of digits with blanks around it is a JSON     *)
(* number, the sample the line carries.                                    *)

\* fifo.read(64), line 44
ReadSize == 64

Digits == {"1", "2"}

Min(a, b) == IF a < b THEN a ELSE b

\* "\n" in data, line 47
HasNewline(text) == \E i \in DOMAIN text : text[i] = "\n"

\* data.index("\n"), lines 48-49: the 0-based place of the first newline
index(text) ==
    (CHOOSE i \in DOMAIN text :
        /\ text[i] = "\n"
        /\ \A j \in 1..(i - 1) : text[j] # "\n") - 1

\* text without the blanks before it and after it, as the JSON decoder
\* skips them
RECURSIVE lstrip(_)
lstrip(text) ==
    IF text # <<>> /\ Head(text) = " " THEN lstrip(Tail(text)) ELSE text

RECURSIVE rstrip(_)
rstrip(text) ==
    IF text # <<>> /\ text[Len(text)] = " "
    THEN rstrip(SubSeq(text, 1, Len(text) - 1))
    ELSE text

\* the number a text of digits denotes
RECURSIVE number(_)
number(text) ==
    IF text = <<>> THEN 0
    ELSE 10 * number(SubSeq(text, 1, Len(text) - 1))
         + (IF text[Len(text)] = "1" THEN 1 ELSE 2)

\* json.loads(line), line 51: the value, or None for ValueError (an empty
\* or blank text, a character that starts no JSON value, two values).
json_loads(line) ==
    LET text == rstrip(lstrip(line))
    IN IF text = <<>> \/ \E i \in DOMAIN text : text[i] \notin Digits
       THEN None
       ELSE Some(number(text))

\* Lines 27-36 and 55-58: the FIFO exists and is empty, the queue is empty,
\* the reader thread has started and is in open(FIFO).
InitBridge ==
    /\ fifo = <<>>
    /\ writer_open = FALSE
    /\ written = <<>>
    /\ writes = 0
    /\ rd_pc = "open"
    /\ data = <<>>
    /\ queue = <<>>
    /\ taken = <<>>
    /\ printed = <<>>

\* The daemon opens the FIFO for writing.
WriterOpens ==
    /\ ~writer_open
    /\ writer_open' = TRUE
    /\ UNCHANGED <<fifo, written, writes, threadVars, queue, taken,
                   consoleVars>>

\* The daemon writes one of the texts of menu, at most max times.
WriterWrites(menu, max) ==
    /\ writer_open
    /\ writes < max
    /\ \E text \in menu :
        /\ fifo' = fifo \o text
        /\ written' = written \o text
    /\ writes' = writes + 1
    /\ UNCHANGED <<writer_open, threadVars, queue, taken, consoleVars>>

\* The daemon closes the FIFO.
WriterCloses ==
    /\ writer_open
    /\ writer_open' = FALSE
    /\ UNCHANGED <<fifo, written, writes, threadVars, queue, taken,
                   consoleVars>>

\* read_thread, lines 41-42: open(FIFO) returns once a writer has opened
\* the other end; data = ''.
ReaderOpens ==
    /\ rd_pc = "open"
    /\ writer_open \/ fifo # <<>>
    /\ rd_pc' = "read"
    /\ data' = <<>>
    /\ UNCHANGED <<pipeVars, printed, queue, taken, consoleVars>>

\* read_thread, lines 47-53, on the buffer after data += new_data: nothing
\* without a newline; else the text before the first newline is taken off
\* the buffer and parsed, the value put on the queue or the line printed.
\* One line is taken, whatever else the buffer holds.
ReadThread(buf, q, out) ==
    IF ~HasNewline(buf) THEN [data |-> buf, queue |-> q, printed |-> out]
    ELSE LET line == SubSeq(buf, 1, index(buf))
             rest == SubSeq(buf, index(buf) + 2, Len(buf))
         IN IF json_loads(line) = None
            THEN [data |-> rest, queue |-> q, printed |-> Append(out, line)]
            ELSE [data |-> rest, queue |-> Append(q, Get(json_loads(line))),
                  printed |-> out]

\* read_thread, lines 44-53, one turn of the inner loop.  fifo.read(64) on
\* a text file returns when it has 64 characters or the writer has closed
\* the FIFO: 64 characters, or the fewer that were left, or '' at the end
\* of the file.  On '' the with block is left and the FIFO opened again.
ReaderReads ==
    /\ rd_pc = "read"
    /\ Len(fifo) >= ReadSize \/ ~writer_open
    /\ \E n \in {Min(ReadSize, Len(fifo))} :
        /\ fifo' = SubSeq(fifo, n + 1, Len(fifo))
        /\ IF n = 0
           THEN /\ rd_pc' = "open"
                /\ UNCHANGED <<data, queue, printed>>
           ELSE /\ \E r \in {ReadThread(data \o SubSeq(fifo, 1, n), queue,
                                        printed)} :
                    /\ data' = r.data
                    /\ queue' = r.queue
                    /\ printed' = r.printed
                /\ rd_pc' = rd_pc
    /\ UNCHANGED <<writer_open, written, writes, taken, consoleVars>>

\* collectd_reader, lines 86-99: get_nowait() until Empty.  What is
\* dispatched depends on fields of the sample that a number does not have,
\* and is left out.
collectd_reader ==
    /\ queue # <<>>
    /\ taken' = taken \o queue
    /\ queue' = <<>>
    /\ UNCHANGED <<pipeVars, threadVars, consoleVars>>

----------------------------------------------------------------------------
(* The console from its start, with the daemon and the user.               *)

\* the log opened at its end
OpenOffset_at_end == Len(logfile)

\* open(sys.argv[1], 'r'), line 357: the read offset of a file opened for
\* reading is 0, and nothing moves it before the main loop.
OpenOffset == 0

\* The state after lines 35-39 and 357-399: empty stores, the log open,
\* curses started, ^L pushed back with ungetch, doquit False.
InitConsole ==
    /\ nodes = <<>>
    /\ events = <<>>
    /\ event_shortcuts = <<>>
    /\ details_selected = None
    /\ details_pad = <<>>
    /\ events_pad = <<>>
    /\ nodes_pad = <<>>
    /\ alarms_pad = <<>>
    /\ doquit = FALSE
    /\ pc = "input"
    /\ keys = <<KEY_REFRESH>>
    /\ typed = 0
    /\ pos = OpenOffset
    /\ scr_size = 0
    /\ sm = 0
    /\ bell = 0
    /\ rendered = "none"
    /\ terminal = "curses"
    /\ elapsed = 0
    /\ age = None

\* The log holds the identity record of eth0 when the console opens it.
Init ==
    /\ logfile = <<IdLine("eth0", 0, "10.0.0.1")>>
    /\ partial = FALSE
    /\ InitConsole
    /\ InitBridge

Step == GetchKey \/ GetchNone \/ LogIdle \/ LogLine \/ ResizeCheck

Next ==
    \/ GetchKey
    \/ GetchNone
    \/ LogIdle
    \/ LogLine
    \/ ResizeCheck
    \/ UserTypes(KeyMenu, MaxPending, MaxKeys)
    \/ WriterAppends(LineMenu(Len(logfile) + 1), MaxLog)
    \/ TerminalResized

Spec == Init /\ [][Next]_vars

----------------------------------------------------------------------------
(* The console reading a log the daemon extends each time the console has  *)
(* caught up with it and sleeps, nobody at the keyboard: every             *)
(* slave-status the daemon can report for eth0, a second node eth1 whose   *)
(* identity comes in the line of its slave-status, a second identity for   *)
(* eth0, rx and tx events, a line that is no JSON and a line read before   *)
(* its end is written.                                                     *)

AlarmMenu == { <<<<>>, <<>>>>,
               <<<<"no-sync-pkts">>, <<>>>>,
               <<<<>>, <<"no-rx-timestamps">>>> }

\* Every state, sync flag and alarm list without a bond change, and two
\* records with one: a sound node, and one that has lost its master.
StatusMenu(n, t) ==
    { SlaveStatus(n, state, in_sync, FALSE, al[1], al[2], t) :
        state \in {"SLAVE", "MASTER"}, in_sync \in BOOLEAN, al \in AlarmMenu }
    \cup
    { SlaveStatus(n, "SLAVE", TRUE, TRUE, <<>>, <<>>, t), Lost(n, t) }

LogMenu(t) ==
    { SsLine(ss) : ss \in StatusMenu("eth0", t) }
    \cup
    { JsonLine(Some(Identity("eth1", 0, "10.0.0.3")), None, None,
               Some(InSync("eth1", t))),
      JsonLine(Some(Identity("eth1", 0, "10.0.0.3")), None, None,
               Some(Lost("eth1", t))),
      IdLine("eth0", 1, "10.0.0.2"),
      JsonLine(None, Some(RxEvent("eth0", Some(5), None, Some(t), t)),
               Some(TxEvent("eth0", t)), None),
      BadLine }

MaxRecords == 4

\* The console has read all of the log and sleeps (line 425), which is
\* where it spends its time: the daemon writes while it sleeps.
CaughtUp == pc = "resize" /\ rendered = "partial" /\ pos = Len(logfile)

\* The line the console may read the first part of.
FragmentMenu(t) == { SsLine(Lost("eth0", t)) }

DaemonAppends ==
    CaughtUp /\ WriterAppends(LogMenu(Len(logfile) + 1), MaxRecords)
DaemonBegins ==
    CaughtUp /\ WriterBegins(FragmentMenu(Len(logfile) + 1), MaxRecords)

NextLog ==
    \/ GetchKey
    \/ GetchNone
    \/ LogIdle
    \/ LogLine
    \/ ResizeCheck
    \/ DaemonAppends
    \/ DaemonBegins
    \/ WriterFinishes

SpecLog == Init /\ [][NextLog]_vars

----------------------------------------------------------------------------
(* The console reading records of a node eth2 whose identity the log has   *)
(* not given: each kind of payload alone, after the identity of another    *)
(* node in the same line, and after an rx event of a known node in the     *)
(* same line; and eth2 with its identity in the line of its slave-status.  *)

LookupMenu(t) ==
    { SsLine(InSync("eth0", t)),
      SsLine(Lost("eth0", t)),
      SsLine(Lost("eth2", t)),
      JsonLine(None, Some(RxEvent("eth2", Some(5), None, None, t)), None, None),
      JsonLine(None, Some(RxEvent("eth2", None, None, Some(t), t)), None, None),
      JsonLine(None, None, Some(TxEvent("eth2", t)), None),
      JsonLine(Some(Identity("eth1", 0, "10.0.0.3")), None, None,
               Some(Lost("eth2", t))),
      JsonLine(None, Some(RxEvent("eth0", Some(5), None, Some(t), t)), None,
               Some(Lost("eth2", t))),
      JsonLine(Some(Identity("eth2", 0, "10.0.0.4")), None, None,
               Some(InSync("eth2", t))) }

DaemonReports ==
    CaughtUp /\ WriterAppends(LookupMenu(Len(logfile) + 1), MaxRecords)

NextLookup ==
    \/ GetchKey
    \/ GetchNone
    \/ LogIdle
    \/ LogLine
    \/ ResizeCheck
    \/ DaemonReports

SpecLookup == Init /\ [][NextLookup]_vars

----------------------------------------------------------------------------
(* Quitting.  The user has the quit key, a digit and space, the daemon    *)
(* writes a short log, and the loop is scheduled fairly: the single thread *)
(* of the program always takes its next step.                              *)

QuitMenu == {KEY_Q, KEY_0, KEY_SPACE}

MaxQuitKeys == 2
MaxQuitLog == 3

NextQuit ==
    \/ GetchKey
    \/ GetchNone
    \/ LogIdle
    \/ LogLine
    \/ ResizeCheck
    \/ UserTypes(QuitMenu, MaxPending, MaxQuitKeys)
    \/ WriterAppends(LineMenu(Len(logfile) + 1), MaxQuitLog)

FairSpec == Init /\ [][NextQuit]_vars /\ WF_vars(Step)

----------------------------------------------------------------------------
(* A log that never stops growing.  The daemon reports rx events and       *)
(* slave-status records of eth0, all in sync, at any time and without end; *)
(* the lines the console has read play no part in what it does next, and   *)
(* the model forgets them, the offset counting from the first line kept.   *)
(* The loop is scheduled fairly.                                           *)

TailMenu(t) ==
    { JsonLine(None, Some(RxEvent("eth0", Some(5), None, None, t)), None, None),
      SsLine(InSync("eth0", t)) }

\* The number of lines the daemon is ahead of the console by at most.
MaxTail == 2

\* The lines before the offset are dropped from the model of the file.
LogForgets ==
    /\ Running
    /\ pos > 0
    /\ logfile' = SubSeq(logfile, pos + 1, Len(logfile))
    /\ pos' = 0
    /\ UNCHANGED <<storeVars, uiVars, loopVars, kbdVars, partial, sizeVars,
                   outVars, ageVars, bridgeVars>>

NextTail ==
    \/ GetchKey
    \/ GetchNone
    \/ LogIdle
    \/ LogLine
    \/ ResizeCheck
    \/ WriterAppends(TailMenu(Len(logfile) + 1), MaxTail)
    \/ LogForgets

FairTailSpec == Init /\ [][NextTail]_vars /\ WF_vars(Step)

----------------------------------------------------------------------------
(* The events panel with up to twelve events.  The log holds, when the     *)
(* console opens it, the identity of three nodes, a first slave-status of  *)
(* each and a second one that raises between one and four events; the      *)
(* daemon writes nothing more, and the user presses keys once the console  *)
(* has read the log.                                                       *)

PortIds == {"eth0", "eth1", "eth2"}

\* Second records raising one, three and four events.
SecondStatus(n, t, k) ==
    CASE k = 1 -> SlaveStatus(n, "SLAVE", TRUE, TRUE, <<>>, <<>>, t)
      [] k = 2 -> SlaveStatus(n, "MASTER", FALSE, FALSE, <<>>,
                              <<"no-rx-timestamps">>, t)
      [] OTHER -> Lost(n, t)

\* The three lines of node n, the first of them line t of the log.
NodeLines(n, t, k) ==
    << IdLine(n, 0, "10.0.0.1"), SsLine(InSync(n, t + 1)),
       SsLine(SecondStatus(n, t + 2, k)) >>

ShortcutLogs ==
    { NodeLines(o[1], 1, k[1]) \o NodeLines(o[2], 4, k[2])
        \o NodeLines(o[3], 7, k[3]) :
        o \in { <<"eth0", "eth1", "eth2">>, <<"eth2", "eth1", "eth0">> },
        k \in [1..3 -> 1..3] }

\* The digits, ':' (the character after '9') and space.
DigitMenu == { KEY_0 + k : k \in 0..MaxShortcuts } \cup {KEY_SPACE}

InitShortcuts ==
    /\ logfile \in ShortcutLogs
    /\ partial = FALSE
    /\ InitConsole
    /\ InitBridge

UserPicks ==
    /\ pos = Len(logfile)
    /\ UserTypes(DigitMenu, MaxPending, MaxKeys)

NextShortcuts ==
    \/ GetchKey
    \/ GetchNone
    \/ LogIdle
    \/ LogLine
    \/ ResizeCheck
    \/ UserPicks

SpecShortcuts == InitShortcuts /\ [][NextShortcuts]_vars

----------------------------------------------------------------------------
(* time_delta on its own: the age of a timestamp elapsed seconds old.      *)

MaxElapsed == 4000
MaxElapsedHundreds == 2100

InitAge ==
    /\ logfile = <<>>
    /\ partial = FALSE
    /\ InitConsole
    /\ InitBridge

\* The timestamp is any number of whole seconds before utcnow().
PickElapsed ==
    /\ age = None
    /\ elapsed = 0
    /\ elapsed' \in (1..MaxElapsed) \cup {100 * k : k \in 1..MaxElapsedHundreds}
    /\ UNCHANGED <<storeVars, uiVars, loopVars, kbdVars, logVars, pos,
                   sizeVars, outVars, age, bridgeVars>>

RenderAge ==
    /\ age = None
    /\ age' = Some(time_delta(elapsed))
    /\ UNCHANGED <<storeVars, uiVars, loopVars, kbdVars, logVars, pos,
                   sizeVars, outVars, elapsed, bridgeVars>>

NextAge == PickElapsed \/ RenderAge

SpecAge == InitAge /\ [][NextAge]_vars

----------------------------------------------------------------------------
(* The collectd bridge with the daemon at the other end of the FIFO.       *)

\* a line of 65 characters: a sample and 63 blanks
LongLine == <<"1">> \o [i \in 1..(ReadSize - 1) |-> " "] \o <<"\n">>

\* What the daemon writes in one call: a sample, a line that is no JSON,
\* a part of a line, the end of a line, a long line.
WriteMenu ==
    { <<"1", "\n">>, <<"2", "\n">>, <<"x", "\n">>, <<"1">>, <<"\n">>,
      LongLine }

MaxWrites == 3

InitCollectd ==
    /\ logfile = <<>>
    /\ partial = FALSE
    /\ InitConsole
    /\ InitBridge

NextCollectd ==
    \/ WriterOpens
    \/ WriterWrites(WriteMenu, MaxWrites)
    \/ WriterCloses
    \/ ReaderOpens
    \/ ReaderReads
    \/ collectd_reader

SpecCollectd == InitCollectd /\ [][NextCollectd]_vars

----------------------------------------------------------------------------
(* What the log says.  The slave-status records of node n the console has  *)
(* applied are those of the lines it has read whole.                       *)

ReadWhole(i) == ~(partial /\ i = Len(logfile))

IsUpdate(n, i) ==
    /\ logfile[i].text = "json"
    /\ ReadWhole(i)
    /\ logfile[i].slave_status # None
    /\ Get(logfile[i].slave_status).node = n

RECURSIVE UpdatesTo(_, _)
UpdatesTo(n, k) ==
    IF k = 0 THEN <<>>
    ELSE IF IsUpdate(n, k)
         THEN Append(UpdatesTo(n, k - 1), Get(logfile[k].slave_status))
         ELSE UpdatesTo(n, k - 1)
Updates(n) == UpdatesTo(n, pos)

Alarmed(status) == status.msg_alarms # <<>> \/ status.alarms # <<>>

\* The trigger condition of an event type, between two consecutive records.
TriggerHeld(typ, before, now) ==
    CASE typ = "bond-changed" -> now.bond_changed
      [] typ = "alarmed" -> Alarmed(now) /\ ~Alarmed(before)
      [] typ = "left-slave-state" -> now.state # "SLAVE" /\ before.state = "SLAVE"
      [] typ = "lost-sync" -> ~now.in_sync /\ before.in_sync

\* The records among U[from..k] whose trigger held; the first record of a
\* node has none before it, and only its bond-changed flag can hold.
RECURSIVE Triggered(_, _, _, _)
Triggered(typ, U, from, k) ==
    IF k < from THEN <<>>
    ELSE LET held == IF k = 1 THEN typ = "bond-changed" /\ U[1].bond_changed
                     ELSE TriggerHeld(typ, U[k - 1], U[k])
         IN IF held THEN Append(Triggered(typ, U, from, k - 1), U[k])
            ELSE Triggered(typ, U, from, k - 1)

Entries(n, typ) == {i \in 1..Len(events) : EventKey(events[i]) = <<n, typ>>}
Instances(n, typ) ==
    IF HasEvent(events, <<n, typ>>) THEN EventAt(events, <<n, typ>>).instances
    ELSE <<>>

\* The Event Log holds, for each node and type, one entry with exactly the
\* records of U[from..] whose trigger held, and no entry when there are none.
LogMatches(from) ==
    \A n \in PortIds :
        \E U \in {Updates(n)} :
            \A typ \in EventTypes :
                \E expected \in {Triggered(typ, U, from, Len(U))},
                   found \in {SelectSeq(events,
                                        LAMBDA e : e.node = n /\ e.typ = typ)} :
                    IF expected = <<>> THEN found = <<>>
                    ELSE Len(found) = 1 /\ found[1].instances = expected

\* C1 as stated: for every sequence of slave-status records applied to one
\* node, the Event Log holds at most one entry per (node, type) and its
\* instances are exactly the updates, in order, for which the trigger
\* condition of the type held (bondChanged true; alarmed now and not before;
\* not SLAVE now and SLAVE before; not in sync now and in sync before).
C1_EveryUpdateDerives == LogMatches(1)

\* C1 amended: the same of the updates after the node's first slave-status
\* record, which is the baseline and derives nothing.  In particular a
\* SLAVE/in-sync record followed by a MASTER/in-sync one yields exactly one
\* left-slave-state entry and no lost-sync entry.
C1_UpdatesAfterBaselineDerive ==
    /\ LogMatches(2)
    /\ \A n \in PortIds :
         LET U == Updates(n)
         IN (/\ Len(U) = 2
             /\ U[1].state = "SLAVE" /\ U[1].in_sync /\ ~Alarmed(U[1])
             /\ U[2].state = "MASTER" /\ U[2].in_sync)
            => /\ Cardinality(Entries(n, "left-slave-state")) = 1
               /\ Instances(n, "left-slave-state") = <<U[2]>>
               /\ Entries(n, "lost-sync") = {}

\* Three records applied to eth0, the first with a bond change: the
\* bond-changed entry holds the second and the third.
C1_Witness ==
    LET U == Updates("eth0")
    IN /\ Len(U) = 3
       /\ U[1].bond_changed
       /\ Instances("eth0", "bond-changed") = <<U[2], U[3]>>
       /\ Instances("eth0", "lost-sync") = <<U[3]>>

\* The step of the main loop that applies line pos + 1 of the log.
LineApplied == pc = "log" /\ pos' = pos + 1
NextLine == logfile[pos + 1]
NextLineWhole == ReadWhole(pos + 1)

\* The line being applied brings the first slave-status of its node.
FirstStatus ==
    /\ LineApplied
    /\ NextLine.text = "json" /\ NextLineWhole
    /\ NextLine.slave_status # None
    /\ LET n == Get(NextLine.slave_status).node
       IN \/ n \in DOMAIN nodes /\ nodes[n].last_slave_status = None
          \/ /\ n \notin DOMAIN nodes
             /\ NextLine.node # None
             /\ Get(NextLine.node).port_id = n

\* C2: the first slave-status record of a node is stored as the baseline and
\* neither creates nor extends an Event Log entry nor rings the bell,
\* whatever its fields.
C2_FirstStatusIsBaseline ==
    [][FirstStatus =>
         LET record == Get(NextLine.slave_status)
         IN /\ events' = events
            /\ bell' = 0
            /\ record.node \in DOMAIN nodes'
            /\ nodes'[record.node].last_slave_status = Some(record)]_vars

\* The only slave-status applied to eth1 has a bond change, alarms, a state
\* other than SLAVE and no sync; it is stored and there is no event.
C2_Witness ==
    /\ "eth1" \in DOMAIN nodes
    /\ LET U == Updates("eth1")
       IN /\ Len(U) = 1
          /\ U[1].bond_changed /\ Alarmed(U[1])
          /\ U[1].state # "SLAVE" /\ ~U[1].in_sync
          /\ nodes["eth1"].last_slave_status = Some(U[1])
    /\ events = <<>>
    /\ pc = "resize"

----------------------------------------------------------------------------
(* Keys.  KeyRead(ch) is the step of the input loop in which getch returns *)
(* ch; Browsing and Detail are the two states of the console.              *)

Browsing == details_selected = None
Detail == details_selected # None

KeyRead(ch) ==
    /\ pc = "input"
    /\ keys # <<>>
    /\ Head(keys) = ch
    /\ keys' = Tail(keys)

\* Entry k of the Event Log is the same in the next state.
EntryKept(k) ==
    /\ HasEvent(events', k)
    /\ EventAt(events', k) = EventAt(events, k)

\* C3: the clear-all key in Browsing leaves the Event Log and the shortcut
\* list empty, so that no key selects anything while the list is empty; the
\* clear-this key in Detail removes exactly the selected entry and leaves
\* every other entry of the Event Log and the Node State Store unchanged.
C3_ClearAllAndClearThis ==
    [][/\ (KeyRead(KEY_C) /\ Browsing)
            => events' = <<>> /\ event_shortcuts' = <<>> /\ Browsing'
       /\ (\E ch \in KeyMenu : KeyRead(ch) /\ Browsing /\ event_shortcuts = <<>>)
            => Browsing'
       /\ (KeyRead(KEY_SPACE) /\ Detail)
            => /\ EventKeys(events') = EventKeys(events) \ {details_selected}
               /\ Len(events') = Len(events) - 1
               /\ \A k \in EventKeys(events) \ {details_selected} : EntryKept(k)
               /\ nodes' = nodes
               /\ pc' = "input"]_vars

\* The four events of eth0 were raised by line 3 and one of them has been
\* cleared with the clear-this key: three are left and the popup is closed.
C3_Witness ==
    /\ pos = 3
    /\ Len(Updates("eth0")) = 2
    /\ Len(events) = 3
    /\ typed = 2 /\ keys = <<>>
    /\ Browsing
    /\ rendered = "full"
    /\ Len(events_pad) = 3

\* C5: the console starts in Browsing.  It goes from Browsing to Detail only
\* on a digit key that has a shortcut, with the event of that shortcut
\* selected, and every such key does so; it leaves Detail only on the
\* clear-this key, for Browsing, the selected entry being deleted.  Nothing
\* else changes the state or the selected event.
C5_BrowsingDetailMachine ==
    /\ Browsing
    /\ [][/\ (Browsing /\ Detail')
               => \E d \in 0..(Len(event_shortcuts) - 1) :
                    /\ KeyRead(KEY_0 + d)
                    /\ details_selected' = event_shortcuts[d + 1]
          /\ \A d \in 0..(Len(event_shortcuts) - 1) :
               (Browsing /\ KeyRead(KEY_0 + d))
                 => details_selected' = event_shortcuts[d + 1]
          /\ (Detail /\ details_selected' # details_selected)
               => /\ KeyRead(KEY_SPACE)
                  /\ Browsing'
                  /\ ~HasEvent(events', details_selected)]_vars

\* The second of four events is selected and a slave-status has been applied
\* since.
C5_Witness ==
    /\ Detail
    /\ Len(event_shortcuts) = 4
    /\ details_selected = event_shortcuts[2]
    /\ Len(events) = 4
    /\ pos = 4
    /\ Len(Updates("eth0")) = 3

\* C8: while an entry of the Event Log exists, its first timestamp and its
\* description stay as set at creation and its instances only grow at the
\* end; an entry goes only by the clear-this key read with that entry
\* selected or by the clear-all key read in Browsing.
C8_EntriesAreAppendOnly ==
    [][\A k \in EventKeys(events) :
         IF HasEvent(events', k)
         THEN LET old == EventAt(events, k)
                  new == EventAt(events', k)
              IN /\ new.time = old.time
                 /\ new.description = old.description
                 /\ Len(new.instances) >= Len(old.instances)
                 /\ SubSeq(new.instances, 1, Len(old.instances)) = old.instances
         ELSE \/ KeyRead(KEY_SPACE) /\ details_selected = k
              \/ KeyRead(KEY_C) /\ Browsing]_vars

\* An entry with two instances, the second later than the first, which
\* still carries the time of the first.
C8_Witness ==
    \E i \in 1..Len(events) :
        /\ Len(events[i].instances) = 2
        /\ events[i].time = events[i].instances[1].monitor_timestamp
        /\ events[i].instances[2].monitor_timestamp > events[i].time

\* The process has ended: the loop was left, by its test or by an exception.
Ended == pc \in {"exited", "crashed"}

\* C10: when the quit key is read in Browsing, the process exits: the main
\* loop ends.
C10_QuitExits ==
    (pc = "input" /\ keys # <<>> /\ Head(keys) = KEY_Q /\ Browsing) ~> Ended

\* The loop has ended by its test after the quit key, the terminal given
\* back.
C10_Witness ==
    /\ pc = "exited"
    /\ doquit
    /\ terminal = "normal"
    /\ pos >= 2

----------------------------------------------------------------------------
(* The events panel.                                                       *)

RowKey(row) == <<row.node, row.typ>>

\* The rows of the panel list every entry of the Event Log once, sorted by
\* type; row k (from 0) carries shortcut k when k < 10 and none otherwise;
\* the shortcut list is that assignment.
PanelShowsLog ==
    /\ Len(events_pad) = Len(events)
    /\ {RowKey(events_pad[i]) : i \in 1..Len(events_pad)} = EventKeys(events)
    /\ \A i \in 1..Len(events_pad) :
         /\ i > 1 => TypeRank(events_pad[i - 1].typ) <= TypeRank(events_pad[i].typ)
         /\ events_pad[i].shortcut = IF i <= 10 THEN Some(i - 1) ELSE None
    /\ Len(event_shortcuts) = IF Len(events) < 10 THEN Len(events) ELSE 10
    /\ \A i \in 1..Len(event_shortcuts) :
         event_shortcuts[i] = RowKey(events_pad[i])

\* The rows shown with shortcut d.
RowsWithShortcut(d) ==
    {i \in 1..Len(events_pad) : events_pad[i].shortcut = Some(d)}

\* C4: after a render of the events panel with N events, shortcut k, for
\* 0 <= k < min(N, 10), is on the k-th entry in display order, the entries
\* sorted by type, and the entries from the tenth on have none; a digit
\* pressed in Browsing selects exactly the entry shown with that digit.
C4_ShortcutsFollowDisplay ==
    /\ [](rendered # "none" => PanelShowsLog)
    /\ [][\A d \in 0..10 :
            (KeyRead(KEY_0 + d) /\ Browsing)
              => IF d < Len(event_shortcuts)
                 THEN /\ RowsWithShortcut(d) = {d + 1}
                      /\ details_selected' = RowKey(events_pad[d + 1])
                 ELSE Browsing']_vars

\* Twelve events are shown and the one with shortcut 9 is selected; the
\* eleventh and twelfth have no shortcut.
C4_Witness ==
    /\ Len(events_pad) = 12
    /\ Len(events) = 12
    /\ details_selected = RowKey(events_pad[10])
    /\ events_pad[10].shortcut = Some(9)
    /\ events_pad[11].shortcut = None
    /\ events_pad[12].shortcut = None
    /\ rendered = "full"

----------------------------------------------------------------------------
(* Lines that do not parse, and identity records.                          *)

\* C6: a line that does not parse as a JSON object, a last line read before
\* the daemon has written its end included, is discarded: the Node State
\* Store and the Event Log are unchanged and the loop goes on.
C6_BadLineIsDiscarded ==
    [][(LineApplied /\ (NextLine.text # "json" \/ ~NextLineWhole))
         => /\ nodes' = nodes
            /\ events' = events
            /\ pc' = "resize"]_vars

\* The line being applied carries an identity record for a port of the store.
KnownIdentity(p) ==
    /\ LineApplied
    /\ NextLine.text = "json" /\ NextLineWhole
    /\ NextLine.node # None
    /\ Get(NextLine.node).port_id = p
    /\ p \in DOMAIN nodes

\* C9: an identity record for a port that is in the Node State Store changes
\* nothing: domain and address stay those of the first identity record and
\* the last rx events, tx event and slave-status of the node are kept (each
\* unless the same line brings a new one).
C9_FirstIdentityWins ==
    [][\A p \in PortIds :
         KnownIdentity(p)
           => /\ p \in DOMAIN nodes'
              /\ nodes'[p].port_id = nodes[p].port_id
              /\ nodes'[p].domain = nodes[p].domain
              /\ nodes'[p].address = nodes[p].address
              /\ NextLine.rx_event = None
                   => /\ nodes'[p].last_rx_event_ts = nodes[p].last_rx_event_ts
                      /\ nodes'[p].last_rx_event_comp = nodes[p].last_rx_event_comp
              /\ NextLine.tx_event = None
                   => nodes'[p].last_tx_event = nodes[p].last_tx_event
              /\ NextLine.slave_status = None
                   => nodes'[p].last_slave_status = nodes[p].last_slave_status
              /\ (/\ NextLine.rx_event = None /\ NextLine.tx_event = None
                  /\ NextLine.slave_status = None)
                   => nodes' = nodes /\ events' = events]_vars

\* A second identity record of eth0, with another domain and address, has
\* been applied after an rx event, a tx event and a slave-status: the node
\* has the domain and address of the first and all it had gathered.
C9_Witness ==
    /\ pos = 4
    /\ pc = "resize"
    /\ logfile[4] = IdLine("eth0", 1, "10.0.0.2")
    /\ nodes["eth0"].domain = 0
    /\ nodes["eth0"].address = "10.0.0.1"
    /\ nodes["eth0"].last_rx_event_ts # None
    /\ nodes["eth0"].last_rx_event_comp # None
    /\ nodes["eth0"].last_tx_event # None
    /\ nodes["eth0"].last_slave_status # None

----------------------------------------------------------------------------
(* Ages.                                                                   *)

\* The age of a timestamp e whole seconds old, as C7 states it.
StatedAge(e) ==
    IF e = 0 THEN "now"
    ELSE IF e < 61 THEN "+" \o ToString(e) \o "s"
    ELSE IF e \div 60 < 61 THEN "+" \o ToString(e \div 60) \o "m"
    ELSE IF e \div 3600 < 25 THEN "+" \o ToString(e \div 3600) \o "h"
    ELSE "+" \o ToString(e \div 86400) \o "d"

\* C7: the age of a timestamp e whole seconds old is "now" for e = 0, "+es"
\* for e < 61, "+Nm" with N = e div 60 when N < 61, "+Nh" with
\* N = e div 3600 when N < 25, and "+Nd" with N = e div 86400 otherwise.
C7_AgeAsStated == age # None => Get(age) = StatedAge(elapsed)

----------------------------------------------------------------------------
(* Where the reading starts.  In SpecShortcuts the daemon writes nothing   *)
(* once the console has opened the log: every line of the log is one that  *)
(* was in the file at open.                                                *)

\* C11 as stated: the log is read from its end at open on, and the records
\* that were in the file when the console opened it are never applied to
\* the Node State Store or the Event Log.
C11_LinesAtOpenNeverApplied ==
    /\ nodes = <<>>
    /\ events = <<>>

\* Line i of the log carries the identity of port n.
IdentityOf(n, i) ==
    /\ logfile[i].text = "json"
    /\ logfile[i].node # None
    /\ Get(logfile[i].node).port_id = n

\* C11 amended: the log is read from the first line of the file: the lines
\* that were in the file at open are applied in file order, so that with k
\* lines read the store has the nodes whose identity is among them, each
\* with the last of its slave-status records, and (no key pressed) the
\* events their slave-status records raise.
C11_LogReadFromStart ==
    /\ pos <= Len(logfile)
    /\ \A n \in PortIds :
         /\ n \in DOMAIN nodes <=> \E i \in 1..pos : IdentityOf(n, i)
         /\ n \in DOMAIN nodes =>
              LET U == Updates(n)
              IN nodes[n].last_slave_status =
                     IF U = <<>> THEN None ELSE Some(U[Len(U)])
    /\ typed = 0 => LogMatches(2)

\* The nine lines that were in the file at open have been read and have
\* raised twelve events, shown by the render of the first idle iteration.
C11_Witness ==
    /\ pos = 9
    /\ Len(logfile) = 9
    /\ typed = 0
    /\ DOMAIN nodes = PortIds
    /\ Len(events) = 12
    /\ rendered = "partial"

----------------------------------------------------------------------------
(* The details popup.                                                      *)

\* The rows for the instances entry k of the Event Log has now, ordered by
\* their own timestamps.
PopupRows(k) ==
    LET records == sorted_instances(EventAt(events, k).instances)
    IN [i \in 1..Len(records) |-> DetailRow(records[i])]

\* C12: whenever the details popup is shown (the console in Detail, after a
\* render), it lists every instance the selected entry has now, ordered by
\* the instances' own timestamps, the instances appended by log records
\* applied while the entry is selected included.
C12_PopupListsEveryInstance ==
    (Detail /\ rendered # "none" /\ HasEvent(events, details_selected))
        => details_pad = PopupRows(details_selected)

----------------------------------------------------------------------------
(* Refreshing.                                                             *)

\* The step of the main loop that finds the terminal with another size.
ResizeSeen == pc = "resize" /\ scr_size # sm /\ pc' # pc

\* C13: in Browsing and in Detail alike, the refresh key and a change of the
\* size of the terminal each do a full refresh and leave the state (Browsing
\* or Detail), the selected event, the Node State Store and the Event Log
\* as they are.
C13_RefreshKeepsState ==
    [][(KeyRead(KEY_REFRESH) \/ ResizeSeen)
         => /\ rendered' = "full"
            /\ details_selected' = details_selected
            /\ nodes' = nodes
            /\ events' = events
            /\ pc' \in {"input", "exited"}]_vars

\* The refresh key has been read in Detail, after the digit that selected the
\* event: the popup is still open on the first of four events.
C13_Witness ==
    /\ Detail
    /\ typed = 2 /\ keys = <<>>
    /\ pc = "input"
    /\ rendered = "full"
    /\ Len(events) = 4
    /\ Len(event_shortcuts) = 4
    /\ details_selected = event_shortcuts[1]

\* What the four panels show and the shortcut assignment, in display state u.
Panels(u) ==
    <<u.nodes_pad, u.alarms_pad, u.events_pad, u.details_pad,
      u.event_shortcuts>>

\* C14: rendering is idempotent: a panel renderer (nodes, alarms, events,
\* details) or the whole display run again right after a render, with no
\* change to the stores, the selection or the time in between, leaves the
\* content of every panel and the shortcut assignment as the render left
\* them.
C14_RenderingIsIdempotent ==
    [][rendered' # "none"
         => \E u \in {UI'} :
              /\ Panels(update_nodes(u)) = Panels(u)
              /\ Panels(update_alarms(u)) = Panels(u)
              /\ Panels(update_events(u)) = Panels(u)
              /\ Panels(update_details(u)) = Panels(u)
              /\ Panels(update_display(u)) = Panels(u)
              /\ Panels(fullupdate_display(u)) = Panels(u)]_vars

\* A partial refresh in Detail with every panel filled: the node, its two
\* alarms, four events and the instance of the selected one.
C14_Witness ==
    /\ rendered = "partial"
    /\ Detail
    /\ Len(nodes_pad) = 2
    /\ Len(alarms_pad) = 2
    /\ Len(events_pad) = 4
    /\ Len(details_pad) = 1
    /\ Len(event_shortcuts) = 4

----------------------------------------------------------------------------
(* Records of nodes the store does not have.                               *)

\* The node references line looks up: that of its rx event, when the event
\* has computed data or a timestamp, of its tx event and of its slave-status.
Lookups(line) ==
    (IF /\ line.rx_event # None
        /\ \/ Get(line.rx_event).offset_from_master # None
           \/ Get(line.rx_event).mean_path_delay # None
           \/ Get(line.rx_event).sync_ingress_timestamp # None
     THEN {Get(line.rx_event).node} ELSE {})
    \cup (IF line.tx_event # None THEN {Get(line.tx_event).node} ELSE {})
    \cup (IF line.slave_status # None THEN {Get(line.slave_status).node}
          ELSE {})

\* The nodes the store has once the identity record of line, if it has one,
\* is in.
KnownWith(line) ==
    DOMAIN nodes
      \cup (IF line.node # None THEN {Get(line.node).port_id} ELSE {})

\* The line being applied has a payload for a node with no NodeRecord.
LookupFails ==
    /\ LineApplied
    /\ NextLine.text = "json" /\ NextLineWhole
    /\ Lookups(NextLine) \ KnownWith(NextLine) # {}

\* C15: an rx-computed, rx-timestamped, tx or slave-status payload whose node
\* has no NodeRecord (no identity record for it in an earlier line or
\* earlier in the same line) is a fatal lookup failure: the processing ends
\* there, no NodeRecord is made for the reference and no entry of the Event
\* Log is made or extended.
C15_UnknownNodeIsFatal ==
    [][LookupFails
         => /\ pc' = "crashed"
            /\ \A ref \in Lookups(NextLine) \ KnownWith(NextLine) :
                 ref \notin DOMAIN nodes'
            /\ events' = events]_vars

\* The console has ended on a slave-status of eth2, which has a bond change
\* and alarms, after taking in the identity of eth1 of the same line, with
\* events of eth0 in the Event Log.
C15_Witness ==
    /\ pc = "crashed"
    /\ pos = 4
    /\ logfile[4].text = "json"
    /\ logfile[4].node # None
    /\ logfile[4].slave_status # None
    /\ Get(logfile[4].slave_status).node = "eth2"
    /\ DOMAIN nodes = {"eth0", "eth1"}
    /\ Len(events) = 4

----------------------------------------------------------------------------
(* The read offset.                                                        *)

\* The step that ends the log part of an iteration.
LogStep == pc = "log" /\ pc' # "log"

\* C16: the read offset never decreases; an iteration that finds no new data
\* leaves it where it was, and one that reads a line moves it past exactly
\* that line, the line at the offset being the one applied; the stores take
\* a record in no other step, so that every line is applied at most once
\* and the lines are applied in file order.
C16_OffsetFollowsLines ==
    [][/\ pos' >= pos
       /\ ~LogStep => pos' = pos /\ nodes' = nodes /\ events' = events
       /\ (LogStep /\ pos = Len(logfile))
            => pos' = pos /\ nodes' = nodes /\ events' = events
       /\ (LogStep /\ pos < Len(logfile))
            => /\ pos' = pos + 1
               /\ \E st \in {process_line(Store(nodes, events), NextLine,
                                            NextLineWhole)} :
                     nodes' = st.nodes /\ events' = st.events]_vars

\* Four lines read one after the other, the console idle after each: the
\* offset is at the end of the file and the third slave-status of eth0 has
\* raised its events.
C16_Witness ==
    /\ pos = 4
    /\ Len(logfile) = 4
    /\ pc = "resize"
    /\ rendered = "partial"
    /\ Len(Updates("eth0")) = 3
    /\ Len(events) = 4

----------------------------------------------------------------------------
(* The order of an iteration.                                              *)

\* C17: in every iteration the keys that wait are all handled before any
\* work on the log; then at most one line is read; a line read is applied
\* to the stores with no render in that step; with no line to read there is
\* a partial render (and the sleep) and the log step changes no store.
C17_KeysThenOneLine ==
    [][/\ (pc = "input" /\ pc' # "input") => keys = <<>> \/ pc' = "crashed"
       /\ (pc = "input" /\ pc' = "log")
            => keys = <<>> /\ pos' = pos /\ nodes' = nodes /\ events' = events
       /\ pc' = "log" => pc \in {"input", "log"}
       /\ LogStep => pc' \in {"resize", "crashed"}
       /\ (LogStep /\ pos < Len(logfile))
            => /\ pos' = pos + 1
               /\ rendered' = "none"
               /\ UNCHANGED uiVars
       /\ (LogStep /\ pos = Len(logfile))
            => /\ rendered' = "partial"
               /\ pos' = pos
               /\ nodes' = nodes /\ events' = events]_vars

\* Two keys were handled, then the third line of the log was read and has
\* raised four events, none of which is on the events panel yet.
C17_Witness ==
    /\ pc = "resize"
    /\ typed = 2 /\ keys = <<>>
    /\ pos = 3
    /\ Len(events) = 4
    /\ events_pad = <<>>
    /\ rendered = "none"

----------------------------------------------------------------------------
(* Leaving the loop.                                                       *)

\* C18: on every path by which the process leaves the main loop once the
\* terminal is in curses mode (the quit key, a fatal error while a line is
\* applied or the display drawn), the terminal is back in normal mode
\* before the process ends.
C18_TerminalRestored == Ended => terminal = "normal"

----------------------------------------------------------------------------
(* The event keys the display holds.                                       *)

\* C20: in every reachable state the event keys the user interface refers
\* to are keys of the Event Log: the selected event, in Detail, and every
\* entry of the shortcut list; so neither the selection of a shortcut nor
\* the clearing of the selected event fails on a missing entry.
C20_DisplayedKeysExist ==
    /\ Detail => HasEvent(events, details_selected)
    /\ \A i \in 1..Len(event_shortcuts) : HasEvent(events, event_shortcuts[i])
    /\ pc = "crashed" => pos > 0 /\ logfile[pos].text # "json"

\* One of four events has been cleared with the clear-this key and a line
\* has been applied since: three events, and their three shortcuts.
C20_Witness ==
    /\ Browsing
    /\ typed = 2 /\ keys = <<>>
    /\ Len(event_shortcuts) = 3
    /\ Len(events) = 3
    /\ pos = 4
    /\ pc = "resize"

----------------------------------------------------------------------------
(* Showing what the log brings.                                            *)

\* The console is about to apply a line that changes the Node State Store
\* or the Event Log.
AppliesChange ==
    /\ pc = "log"
    /\ pos < Len(logfile)
    /\ \E st \in {process_line(Store(nodes, events), NextLine, NextLineWhole)} :
          st.nodes # nodes \/ st.events # events

\* C19: every change a log record makes to the Node State Store or the Event
\* Log is followed, sooner or later, by a refresh of the panels, whatever
\* the daemon does, a log that keeps receiving lines included, and with no
\* key pressed.
C19_ChangeIsRendered == AppliesChange ~> (rendered # "none")

----------------------------------------------------------------------------
(* The collectd bridge: lines written to the FIFO and samples queued.      *)

\* the newline-terminated lines of a text, in order
RECURSIVE LinesOf(_)
LinesOf(text) ==
    IF ~HasNewline(text) THEN <<>>
    ELSE <<SubSeq(text, 1, index(text))>>
         \o LinesOf(SubSeq(text, index(text) + 2, Len(text)))

\* the values of the lines that parse as JSON, in order
RECURSIVE SamplesOf(_)
SamplesOf(lines) ==
    IF lines = <<>> THEN <<>>
    ELSE (IF json_loads(Head(lines)) = None THEN <<>>
          ELSE <<Get(json_loads(Head(lines)))>>)
         \o SamplesOf(Tail(lines))

\* everything put on the queue so far, in order
Put == taken \o queue

\* the reader thread is blocked in open() or in read()
ReaderWaits ==
    /\ ~(rd_pc = "open" /\ (writer_open \/ fifo # <<>>))
    /\ ~(rd_pc = "read" /\ (Len(fifo) >= ReadSize \/ ~writer_open))

\* C21: every newline-terminated line written to the FIFO that parses as
\* JSON is put on the queue exactly once and in the order written: once the
\* reader thread has read all that was written and waits for more, what it
\* has put on the queue is the samples of the lines written, in order.
C21_EveryLineQueuedOnce ==
    (ReaderWaits /\ fifo = <<>>) => Put = SamplesOf(LinesOf(written))

====
